---- MODULE Spec2Model ----
(***************************************************************************)
(* Bulk student provisioning, ZEP space orchestration and the ZEP HTTP     *)
(* client of the neulbom repository, as state machines over the persisted  *)
(* store (User, Student, School, Class, FailedSpaceCreation), the upload   *)
(* session and the client's retry state.                                   *)
(*                                                                         *)
(* A statement that raises changes nothing in the store.  Inside            *)
(* transaction.atomic() a database error marks the transaction for         *)
(* rollback: every later query of the block raises                         *)
(* TransactionManagementError, and the block restores the store of its     *)
(* entry when it is left, by an exception or not.                          *)
(***************************************************************************)
EXTENDS Integers, Sequences, FiniteSets, TLC

VARIABLES db, session, last, req

vars == <<db, session, last, req>>

-----------------------------------------------------------------------------
(* Bounds of the model *)

MaxSuffix == 2       \* values secrets.token_hex(4) can take
MaxStale == 2        \* profiles of renamed accounts that keep an old email
MaxRows == 3         \* rows of a small roster
MaxFailed == 2       \* FailedSpaceCreation records in the store

(* Program constants *)

SafetyLimit == 10
MAX_BATCH_SIZE_FOR_AUTO_SPACE == 30
max_retries == 3
retry_delay == 2

NoId == 0            \* a null foreign key
Suffixes == 1..MaxSuffix
Stamps == {7}        \* str(int(time.time() * 1000))[-8:] of a call
Years == {2025}      \* datetime.now().year

-----------------------------------------------------------------------------
(* Text of identifiers.  A username is "student_{ts}_{rnd}" followed, after *)
(* a regeneration, by "_{counter}"; sfx holds the digits of that counter.   *)
(* An email is the username's text followed by the digits of the email      *)
(* counter: they extend the last segment of the text, rnd (ext) when the    *)
(* username has no counter and sfx when it has one.                         *)

RECURSIVE Digits(_)
Digits(n) ==
    IF n < 10 THEN <<n>> ELSE Digits(n \div 10) \o <<n % 10>>

Username(ts, rnd, counter) ==
    [ts |-> ts, rnd |-> rnd,
     sfx |-> IF counter = 0 THEN <<>> ELSE Digits(counter)]

Email(username, counter) ==
    LET d == IF counter = 0 THEN <<>> ELSE Digits(counter)
    IN  IF username.sfx = <<>>
        THEN [ts |-> username.ts, rnd |-> username.rnd, ext |-> d, sfx |-> <<>>]
        ELSE [ts |-> username.ts, rnd |-> username.rnd, ext |-> <<>>,
              sfx |-> username.sfx \o d]

(* The i-th value of the random source: a script, read cyclically. *)
Draw(script, i) == script[((i - 1) % Len(script)) + 1]

Usernames(User) == {u.username : u \in User}
GeneratedEmails(Student) == {s.generated_email : s \in Student}

-----------------------------------------------------------------------------
(* StudentAccountService.generate_student_username *)

RECURSIVE RegenerateUsername(_, _, _, _, _, _)
RegenerateUsername(User, ts, username, counter, script, pos) ==
    IF username \notin Usernames(User)
    THEN [username |-> username, pos |-> pos, capped |-> FALSE]
    ELSE LET c == counter + 1
             u == Username(ts, Draw(script, pos), c)
         IN  IF c > SafetyLimit
             THEN [username |-> u, pos |-> pos + 1, capped |-> TRUE]
             ELSE RegenerateUsername(User, ts, u, c, script, pos + 1)

RECURSIVE UniqueEmail(_, _, _)
UniqueEmail(Student, username, counter) ==
    IF Email(username, counter) \notin GeneratedEmails(Student)
    THEN Email(username, counter)
    ELSE UniqueEmail(Student, username, counter + 1)

generate_student_username(store, ts, script, pos) ==
    LET r == RegenerateUsername(store.User, ts,
                                Username(ts, Draw(script, pos), 0), 0,
                                script, pos + 1)
    IN  [username |-> r.username,
         email |-> UniqueEmail(store.Student, r.username, 0),
         pos |-> r.pos,
         capped |-> r.capped]

-----------------------------------------------------------------------------
(* The persisted store.  Accounts are keyed by username (unique), profiles  *)
(* by their account (one-to-one) and by generated_email (unique).           *)

NoUser == Username(0, 0, 0)
NoEmail == Email(NoUser, 0)
Instructor(n) == Username(0, n, 0)
Instructors == {Instructor(1), Instructor(2)}

EmptyStore ==
    [User |-> {}, Student |-> {}, School |-> {}, Class |-> {},
     FailedSpaceCreation |-> {}, nextId |-> 1]

(* create_user without the unique constraint on username. *)
create_user_NotUnique(store, username, email, role) ==
    [ok |-> TRUE,
     store |-> [store EXCEPT !.User = @ \cup
                   {[username |-> username, email |-> email, role |-> role]}]]

(* User.objects.create_user: the username is unique in the table. *)
create_user(store, username, email, role) ==
    IF username \in Usernames(store.User)
    THEN [ok |-> FALSE, store |-> store]
    ELSE [ok |-> TRUE,
          store |-> [store EXCEPT !.User = @ \cup
                        {[username |-> username, email |-> email, role |-> role]}]]

(* Student.objects.create: one profile per account, generated_email unique. *)
StudentCreate(store, username, name, class_id, email, url) ==
    IF \/ email \in GeneratedEmails(store.Student)
       \/ username \in {s.user : s \in store.Student}
    THEN [ok |-> FALSE, store |-> store]
    ELSE [ok |-> TRUE,
          store |-> [store EXCEPT !.Student = @ \cup
                        {[user |-> username, name |-> name,
                          class_assignment |-> class_id,
                          generated_email |-> email,
                          zep_space_url |-> url]}]]

(* School.objects.get_or_create(name=school_name, defaults={}) *)
SchoolGetOrCreate(store, name) ==
    LET found == {s \in store.School : s.name = name}
    IN  IF Cardinality(found) > 1
        THEN [ok |-> FALSE, id |-> NoId, store |-> store]
        ELSE IF found # {}
        THEN [ok |-> TRUE, id |-> (CHOOSE s \in found : TRUE).id, store |-> store]
        ELSE [ok |-> TRUE, id |-> store.nextId,
              store |-> [store EXCEPT
                  !.School = @ \cup {[id |-> store.nextId, name |-> name,
                                      instructor |-> NoUser]},
                  !.nextId = @ + 1]]

(* Class.objects.get_or_create(name, school, instructor, academic_year) *)
ClassGetOrCreate(store, name, school, instructor, year) ==
    LET found == {c \in store.Class :
                    /\ c.name = name /\ c.school = school
                    /\ c.instructor = instructor /\ c.academic_year = year}
    IN  IF Cardinality(found) > 1
        THEN [ok |-> FALSE, id |-> NoId, store |-> store]
        ELSE IF found # {}
        THEN [ok |-> TRUE, id |-> (CHOOSE c \in found : TRUE).id, store |-> store]
        ELSE [ok |-> TRUE, id |-> store.nextId,
              store |-> [store EXCEPT
                  !.Class = @ \cup {[id |-> store.nextId, name |-> name,
                                     school |-> school, instructor |-> instructor,
                                     academic_year |-> year]},
                  !.nextId = @ + 1]]

-----------------------------------------------------------------------------
(* Bulk account provisioning (students/services.py).  A roster row is       *)
(* [school_name, class_name, student_name, zep_space_url, fault]; fault is  *)
(* the error, other than a duplicate, that the processing of the row        *)
(* meets: "user" (a database error in create_user), "student" (a database   *)
(* error in Student.objects.create), "value" (a class_number or grade that  *)
(* int() rejects) or "none".                                                *)
(* acc is the state of the loop: the store inside the transaction, the      *)
(* created_students and creation_results lists, the position in the random  *)
(* source, whether a database error has marked the transaction for          *)
(* rollback (broken) and whether an exception has left the loop (raised).   *)

RowResult(acc, row, success, g, error) ==
    [name |-> row.student_name,
     school_name |-> row.school_name,
     class_name |-> row.class_name,
     success |-> success,
     username |-> IF success THEN g.username ELSE NoUser,
     email |-> IF success THEN g.email ELSE NoEmail,
     candidate |-> g.username,
     capped |-> g.capped,
     used |-> g.username \in Usernames(acc.store.User),
     error |-> error]

StartAcc(store) ==
    [store |-> store, created |-> <<>>, results |-> <<>>, pos |-> 1,
     broken |-> FALSE, raised |-> FALSE, faulted |-> FALSE]

(* The Student object appended to created_students. *)
Created(username, url) == [user |-> username, zep_space_url |-> url]

(* A row that generated no identifier. *)
NoCandidate == [username |-> NoUser, email |-> NoEmail, capped |-> FALSE]

(* One iteration of the loop of create_student_accounts.  A class_number   *)
(* or grade that int() rejects is logged and stored as null: the fault      *)
(* "value" raises nothing here.                                             *)
SingleClassRow(acc, row, class_id, ts, script) ==
    LET g == generate_student_username(acc.store, ts, script, acc.pos)
        u == create_user(acc.store, g.username, g.email, "student")
        s == StudentCreate(u.store, g.username, row.student_name, class_id,
                           g.email, "")
    IN  IF g.username \in Usernames(acc.store.User)
        THEN [acc EXCEPT !.pos = g.pos,
                         !.results = Append(@, RowResult(acc, row, FALSE, g, "exists"))]
        ELSE IF row.fault \in {"user", "student"} \/ ~u.ok \/ ~s.ok
        THEN [acc EXCEPT !.pos = g.pos, !.raised = TRUE,
                         !.faulted = @ \/ row.fault \in {"user", "student"}]
        ELSE [acc EXCEPT !.pos = g.pos,
                         !.store = s.store,
                         !.created = Append(@, Created(g.username, "")),
                         !.results = Append(@, RowResult(acc, row, TRUE, g, "none"))]

RECURSIVE SingleClassLoop(_, _, _, _, _)
SingleClassLoop(acc, rows, class_id, ts, script) ==
    IF rows = <<>> \/ acc.raised THEN acc
    ELSE SingleClassLoop(SingleClassRow(acc, Head(rows), class_id, ts, script),
                         Tail(rows), class_id, ts, script)

(* with transaction.atomic(): ... except Exception: raise StudentCreationError. *)
(* A block left without exception commits unless a database error has       *)
(* marked the transaction; then it rolls back and the lists are returned.   *)
Atomic(store, acc) ==
    IF acc.raised
    THEN [store |-> store, created |-> <<>>, results |-> <<>>, raised |-> TRUE,
          broken |-> acc.broken, faulted |-> acc.faulted]
    ELSE [store |-> IF acc.broken THEN store ELSE acc.store,
          created |-> acc.created, results |-> acc.results,
          raised |-> FALSE, broken |-> acc.broken, faulted |-> acc.faulted]

create_student_accounts(store, rows, class_id, ts, script) ==
    Atomic(store, SingleClassLoop(StartAcc(store), rows, class_id, ts, script))

(* One iteration of the inner loop of the auto-hierarchy mode: every        *)
(* exception of the row is caught and recorded.  What the row's earlier      *)
(* statements wrote stays in the transaction; a database error marks the    *)
(* transaction, and a row that starts in a marked transaction fails at the  *)
(* first query of the identifier generation.                                *)
AutoRow(acc, row, class_id, ts, script) ==
    LET g == generate_student_username(acc.store, ts, script, acc.pos)
        u == create_user(acc.store, g.username, g.email, "student")
        s == StudentCreate(u.store, g.username, row.student_name, class_id,
                           g.email, row.zep_space_url)
    IN  IF acc.broken
        THEN [acc EXCEPT !.results = Append(@, RowResult(acc, row, FALSE, NoCandidate,
                                                         "transaction"))]
        ELSE IF row.fault = "user" \/ ~u.ok
        THEN [acc EXCEPT !.pos = g.pos,
                         !.broken = TRUE,
                         !.faulted = @ \/ row.fault = "user",
                         !.results = Append(@, RowResult(acc, row, FALSE, g, "user"))]
        ELSE IF row.fault = "value"
        THEN [acc EXCEPT !.pos = g.pos,
                         !.store = u.store,
                         !.faulted = TRUE,
                         !.results = Append(@, RowResult(acc, row, FALSE, g, "value"))]
        ELSE IF row.fault = "student" \/ ~s.ok
        THEN [acc EXCEPT !.pos = g.pos,
                         !.store = u.store,
                         !.broken = TRUE,
                         !.faulted = @ \/ row.fault = "student",
                         !.results = Append(@, RowResult(acc, row, FALSE, g, "student"))]
        ELSE [acc EXCEPT !.pos = g.pos,
                         !.store = s.store,
                         !.created = Append(@, Created(g.username, row.zep_space_url)),
                         !.results = Append(@, RowResult(acc, row, TRUE, g, "none"))]

(* No row of this loop raises: acc.raised is false throughout. *)
RECURSIVE AutoRows(_, _, _, _, _)
AutoRows(acc, rows, class_id, ts, script) ==
    IF rows = <<>> \/ acc.raised THEN acc
    ELSE AutoRows(AutoRow(acc, Head(rows), class_id, ts, script),
                  Tail(rows), class_id, ts, script)

(* students_by_class: the (school_name, class_name) keys in the order of     *)
(* their first row, and the rows of a key in the order of the roster.       *)
RowKey(row) == <<row.school_name, row.class_name>>

RECURSIVE GroupKeys(_, _)
GroupKeys(rows, seen) ==
    IF rows = <<>> THEN seen
    ELSE IF \E i \in 1..Len(seen) : seen[i] = RowKey(Head(rows))
    THEN GroupKeys(Tail(rows), seen)
    ELSE GroupKeys(Tail(rows), Append(seen, RowKey(Head(rows))))

RowsOfKey(rows, key) == SelectSeq(rows, LAMBDA r : RowKey(r) = key)

AutoGroup(acc, key, rows, instructor, year, ts, script) ==
    LET sch == SchoolGetOrCreate(acc.store, key[1])
        cls == ClassGetOrCreate(sch.store, key[2], sch.id, instructor, year)
    IN  IF acc.broken \/ ~sch.ok \/ ~cls.ok
        THEN [acc EXCEPT !.raised = TRUE]
        ELSE AutoRows([acc EXCEPT !.store = cls.store], RowsOfKey(rows, key),
                      cls.id, ts, script)

RECURSIVE AutoGroups(_, _, _, _, _, _, _)
AutoGroups(acc, keys, rows, instructor, year, ts, script) ==
    IF keys = <<>> \/ acc.raised THEN acc
    ELSE AutoGroups(AutoGroup(acc, Head(keys), rows, instructor, year, ts, script),
                    Tail(keys), rows, instructor, year, ts, script)

create_students_from_csv_with_auto_school_class(store, rows, instructor, year, ts, script) ==
    Atomic(store, AutoGroups(StartAcc(store), GroupKeys(rows, <<>>), rows,
                             instructor, year, ts, script))

-----------------------------------------------------------------------------
(* Stores the operations start from.  Accounts of earlier imports hold the  *)
(* usernames of the suffixes in sat up to regeneration counter level - 1;   *)
(* stale profiles belong to accounts that were renamed since and still      *)
(* hold the emails of the first free username.                              *)

Levels == 0..(SafetyLimit + 2)

(* Random sources: one suffix for ever, two in turn, and one that collides  *)
(* on every regeneration of a call between two calls that do not.           *)
CapScript == [i \in 1..(SafetyLimit + 4) |-> IF i \in {1, SafetyLimit + 4} THEN 2 ELSE 1]
Scripts == {<<a>> : a \in Suffixes} \cup {<<1, 2>>, CapScript}

OldStudent(username, email) ==
    [user |-> username, name |-> "old", class_assignment |-> NoId,
     generated_email |-> email, zep_space_url |-> ""]

OldUser(username, email) ==
    [username |-> username, email |-> email, role |-> "student"]

InstructorUser(n) ==
    [username |-> Instructor(n), email |-> Email(Instructor(n), 0),
     role |-> "instructor"]

InitStore(ts, level, sat, stale) ==
    LET taken == {Username(ts, r, c) : r \in sat, c \in 0..(level - 1)}
        renamed == {[username |-> Username(0, 10 + i, 0),
                     email |-> Email(Username(ts, 1, level), i - 1)] : i \in 1..stale}
    IN  [EmptyStore EXCEPT
            !.User = {OldUser(u, Email(u, 0)) : u \in taken}
                     \cup {OldUser(x.username, x.email) : x \in renamed}
                     \cup {InstructorUser(1), InstructorUser(2)},
            !.Student = {OldStudent(u, Email(u, 0)) : u \in taken}
                        \cup {OldStudent(x.username, x.email) : x \in renamed}]

NoUpload == [present |-> FALSE, students |-> <<>>]
IdleReq ==
    [pc |-> "idle", retry_count |-> 0, requests |-> 0, sleeps |-> <<>>,
     responses |-> <<>>, result |-> "none", cause |-> "none"]

-----------------------------------------------------------------------------
(* SpecGen: generate_student_username applied to every store of the family. *)

InitGen ==
    /\ \E ts \in Stamps, level \in Levels, sat \in {{1}, Suffixes},
          stale \in 0..MaxStale :
          db = InitStore(ts, level, sat, stale)
    /\ session = NoUpload
    /\ last = [op |-> "init"]
    /\ req = IdleReq

GenerateStudentUsername ==
    /\ last.op = "init"
    /\ \E ts \in Stamps, script \in Scripts :
          \E g \in {generate_student_username(db, ts, script, 1)} :
              last' = [op |-> "generate", username |-> g.username,
                       email |-> g.email, capped |-> g.capped]
    /\ UNCHANGED <<db, session, req>>

NextGen == GenerateStudentUsername

SpecGen == InitGen /\ [][NextGen]_vars

(* C8: the (username, email) generate_student_username returns is used by   *)
(* no Account and by no StudentProfile of the store it was called on.       *)
C8_GeneratedUnused ==
    last.op = "generate" =>
        /\ last.username \notin Usernames(db.User)
        /\ last.email \notin GeneratedEmails(db.Student)

-----------------------------------------------------------------------------
(* SpecBulk: one bulk provisioning call, in either mode, on a store of the  *)
(* family with a school and class hierarchy the dashboard can have built:   *)
(* none, one school with one class, or that class created twice             *)
(* (create_class makes no uniqueness check).                                *)

BulkLevels == {0, 1, SafetyLimit + 1, SafetyLimit + 2}
Hierarchies == {"none", "one", "twice"}

ClassOf(id, school, n) ==
    [id |-> id, name |-> "c1", school |-> school, instructor |-> Instructor(n),
     academic_year |-> CHOOSE y \in Years : TRUE]

WithHierarchy(store, h) ==
    IF h = "none" THEN store
    ELSE [store EXCEPT
            !.School = {[id |-> 1, name |-> "s1", instructor |-> Instructor(1)]},
            !.Class = IF h = "one" THEN {ClassOf(2, 1, 1)}
                      ELSE {ClassOf(2, 1, 1), ClassOf(3, 1, 1)},
            !.nextId = 4]

PlainRows ==
    [school_name : {"s1", "s2"}, class_name : {"c1"}, student_name : {"n1"},
     zep_space_url : {""}, fault : {"none"}]

Faults == {"user", "student", "value"}

(* Rosters of at most MaxRows rows in which at most one row meets a fault. *)
Rosters ==
    UNION {
        {r \in [1..n -> PlainRows \cup
                        {[p EXCEPT !.fault = f] : p \in PlainRows, f \in Faults}] :
            Cardinality({i \in 1..n : r[i].fault # "none"}) <= 1}
        : n \in 1..MaxRows}

InitBulk ==
    /\ \E ts \in Stamps, level \in BulkLevels, sat \in {{1}, Suffixes},
          stale \in {0, MaxStale}, h \in Hierarchies :
          db = WithHierarchy(InitStore(ts, level, sat, stale), h)
    /\ session = NoUpload
    /\ last = [op |-> "init"]
    /\ req = IdleReq

BulkLast(op, rows, out) ==
    [op |-> op, rows |-> rows, pre |-> db, created |-> out.created,
     results |-> out.results, raised |-> out.raised, broken |-> out.broken,
     faulted |-> out.faulted]

CreateStudentAccounts ==
    /\ last.op = "init"
    /\ \E rows \in Rosters, c \in db.Class, ts \in Stamps, script \in Scripts :
          \E out \in {create_student_accounts(db, rows, c.id, ts, script)} :
              /\ db' = out.store
              /\ last' = BulkLast("single", rows, out)
    /\ UNCHANGED <<session, req>>

CreateStudentsAuto ==
    /\ last.op = "init"
    /\ \E rows \in Rosters, instructor \in Instructors, year \in Years,
          ts \in Stamps, script \in Scripts :
          \E out \in {create_students_from_csv_with_auto_school_class(
                          db, rows, instructor, year, ts, script)} :
              /\ db' = out.store
              /\ last' = BulkLast("auto", rows, out)
    /\ UNCHANGED <<session, req>>

NextBulk == CreateStudentAccounts \/ CreateStudentsAuto

SpecBulk == InitBulk /\ [][NextBulk]_vars

IsBulk == last.op \in {"single", "auto"}

Count(seq, P(_)) == Cardinality({i \in 1..Len(seq) : P(seq[i])})
NoFault(rows) == \A i \in 1..Len(rows) : rows[i].fault = "none"
Added(table_after, table_before) == Cardinality(table_after) - Cardinality(table_before)

(* No two schools share a name and no two classes share a get_or_create key. *)
NoDuplicateHierarchy(store) ==
    /\ \A a, b \in store.School : a.name = b.name => a = b
    /\ \A a, b \in store.Class :
          (/\ a.name = b.name /\ a.school = b.school
           /\ a.instructor = b.instructor /\ a.academic_year = b.academic_year) => a = b

(* C1: in both modes, when the processing of a row raises an exception      *)
(* that is no duplicate collision, the call fails with one batch error and  *)
(* the store is the store from before the call.                             *)
C1_NonDuplicateErrorRollsBack ==
    (IsBulk /\ last.faulted) => (last.raised /\ db = last.pre)

(* C1 restricted to the single-class mode. *)
C1_SingleClassRollsBack ==
    (last.op = "single" /\ last.faulted) => (last.raised /\ db = last.pre)

(* C2: when rows merely collide on the login identifier, the batch is not   *)
(* aborted: every row has a result, exactly the colliding rows failed, and  *)
(* one Account and one StudentProfile were added per other row.             *)
C2_DuplicateRowSkipped ==
    (IsBulk /\ NoFault(last.rows) /\ NoDuplicateHierarchy(last.pre)) =>
        /\ ~last.raised
        /\ Len(last.results) = Len(last.rows)
        /\ \A i \in 1..Len(last.results) :
              last.results[i].success <=> ~last.results[i].used
        /\ Added(db.User, last.pre.User)
              = Len(last.rows) - Count(last.results, LAMBDA r : r.used)
        /\ Added(db.Student, last.pre.Student)
              = Len(last.rows) - Count(last.results, LAMBDA r : r.used)
        /\ last.pre.User \subseteq db.User
        /\ last.pre.Student \subseteq db.Student

(* C2 restricted to the single-class mode. *)
C2_SingleClassSkips ==
    (last.op = "single" /\ NoFault(last.rows)) =>
        /\ ~last.raised
        /\ Len(last.results) = Len(last.rows)
        /\ \A i \in 1..Len(last.results) :
              last.results[i].success <=> ~last.results[i].used
        /\ Added(db.User, last.pre.User)
              = Len(last.rows) - Count(last.results, LAMBDA r : r.used)
        /\ Added(db.Student, last.pre.Student)
              = Len(last.rows) - Count(last.results, LAMBDA r : r.used)

ProfileOf(store, username) == CHOOSE p \in store.Student : p.user = username

(* C3: the auto-hierarchy mode turns every row of a validated roster into   *)
(* one student Account and one StudentProfile whose class has the row's     *)
(* class name and belongs to a school with the row's school name.           *)
C3_RoundTrip ==
    (last.op = "auto" /\ NoFault(last.rows)) =>
        /\ ~last.raised
        /\ Len(last.created) = Len(last.rows)
        /\ Added(db.User, last.pre.User) = Len(last.rows)
        /\ Added(db.Student, last.pre.Student) = Len(last.rows)
        /\ \A i \in 1..Len(last.results) :
              LET r == last.results[i] IN
              /\ r.success
              /\ \E u \in db.User : u.username = r.username /\ u.role = "student"
              /\ \E p \in db.Student : p.user = r.username
              /\ \E c \in db.Class, sch \in db.School :
                    /\ c.id = ProfileOf(db, r.username).class_assignment
                    /\ c.name = r.class_name
                    /\ sch.id = c.school
                    /\ sch.name = r.school_name

(* C9: a row whose identifier generation ended at the collision cap with a  *)
(* candidate that is in use is reported as failed (or the call failed), and *)
(* no two Accounts ever share a username.                                   *)
C9_CapSurfaced ==
    IsBulk =>
        /\ \A i \in 1..Len(last.results) :
              (last.results[i].capped /\ last.results[i].used)
                  => ~last.results[i].success
        /\ Cardinality(Usernames(db.User)) = Cardinality(db.User)

(* The auto-hierarchy mode reports a capped, colliding row as failed. *)
C9_Witness ==
    /\ last.op = "auto"
    /\ \E i \in 1..Len(last.results) :
          /\ last.results[i].capped /\ last.results[i].used
          /\ ~last.results[i].success

-----------------------------------------------------------------------------
(* Space provisioning (spaces/services.py).  The outcome of the external    *)
(* API for one student is "ok", "create_error" (create_space raises         *)
(* ZEPAPIError), "missing_fields" (the response lacks space_id or url) or   *)
(* "permission_error" (set_space_permissions raises ZEPAPIError).           *)

ApiOutcomes == {"ok", "create_error", "missing_fields", "permission_error"}

ApiCalls(student, outcome) ==
    IF outcome \in {"ok", "permission_error"}
    THEN <<[call |-> "create_space", student |-> student],
           [call |-> "set_space_permissions", student |-> student]>>
    ELSE <<[call |-> "create_space", student |-> student]>>

SetSpaceUrl(Student, student, url) ==
    {IF p.user = student THEN [p EXCEPT !.zep_space_url = url] ELSE p : p \in Student}

NewFailedSpaceCreation(store, student, error) ==
    [id |-> store.nextId, student |-> student, error_message |-> error,
     retry_count |-> 0, resolved |-> FALSE, resolved_at |-> "null"]

(* create_student_space without the record of the failure. *)
create_student_space_NoLedger(store, student, outcome) ==
    IF outcome = "ok"
    THEN [store |-> [store EXCEPT !.Student = SetSpaceUrl(@, student, "zep")],
          success |-> TRUE, student |-> student, error |-> "none",
          calls |-> ApiCalls(student, outcome)]
    ELSE [store |-> store,
          success |-> FALSE, student |-> student, error |-> outcome,
          calls |-> ApiCalls(student, outcome)]

(* create_student_space that stores the URL before set_space_permissions. *)
create_student_space_EarlyUrl(store, student, outcome) ==
    IF outcome = "ok"
    THEN [store |-> [store EXCEPT !.Student = SetSpaceUrl(@, student, "zep")],
          success |-> TRUE, student |-> student, error |-> "none",
          calls |-> ApiCalls(student, outcome)]
    ELSE [store |-> [store EXCEPT
                        !.Student = IF outcome = "permission_error"
                                    THEN SetSpaceUrl(@, student, "zep") ELSE @,
                        !.FailedSpaceCreation =
                            @ \cup {NewFailedSpaceCreation(store, student, outcome)},
                        !.nextId = @ + 1],
          success |-> FALSE, student |-> student, error |-> outcome,
          calls |-> ApiCalls(student, outcome)]

create_student_space(store, student, outcome) ==
    IF outcome = "ok"
    THEN [store |-> [store EXCEPT !.Student = SetSpaceUrl(@, student, "zep")],
          success |-> TRUE, student |-> student, error |-> "none",
          calls |-> ApiCalls(student, outcome)]
    ELSE [store |-> [store EXCEPT
                        !.FailedSpaceCreation =
                            @ \cup {NewFailedSpaceCreation(store, student, outcome)},
                        !.nextId = @ + 1],
          success |-> FALSE, student |-> student, error |-> outcome,
          calls |-> ApiCalls(student, outcome)]

(* The loop of create_spaces_for_students; api gives the outcome the        *)
(* external API has for each student.                                       *)
RECURSIVE SpacesLoop(_, _, _)
SpacesLoop(acc, students, api) ==
    IF students = <<>> THEN acc
    ELSE LET r == create_student_space(acc.store, Head(students), api[Head(students)])
             next == [acc EXCEPT
                        !.store = r.store,
                        !.details = Append(@, [success |-> r.success,
                                               student |-> r.student,
                                               error |-> r.error]),
                        !.calls = @ \o r.calls]
         IN  IF r.success
             THEN SpacesLoop([next EXCEPT !.success = @ + 1], Tail(students), api)
             ELSE SpacesLoop([next EXCEPT !.failed = @ + 1], Tail(students), api)

create_spaces_for_students(store, students, api) ==
    SpacesLoop([store |-> store, total |-> Len(students), success |-> 0,
                failed |-> 0, details |-> <<>>, calls |-> <<>>],
               students, api)

(* student.class_assignment.instructor.email if student.class_assignment   *)
(* else None.  A class without instructor makes the attribute access raise. *)
InstructorEmail(store, student) ==
    LET p == ProfileOf(store, student)
        c == CHOOSE c \in store.Class : c.id = p.class_assignment
        u == CHOOSE u \in store.User : u.username = c.instructor
    IN  IF p.class_assignment = NoId THEN [raised |-> FALSE, email |-> NoEmail]
        ELSE IF c.instructor = NoUser THEN [raised |-> TRUE, email |-> NoEmail]
        ELSE [raised |-> FALSE, email |-> u.email]

SaveFailedCreation(store, f) ==
    [store EXCEPT !.FailedSpaceCreation =
        {IF x.id = f.id THEN f ELSE x : x \in @}]

RetryOutcome(store, success, raised, calls) ==
    [store |-> store, success |-> success, raised |-> raised, calls |-> calls]

(* The retry without the check of the instructor email. *)
retry_failed_space_creation_NoCheck(store, f, outcome) ==
    LET r == create_student_space(store, f.student, outcome)
    IN  IF r.success
        THEN RetryOutcome(SaveFailedCreation(r.store,
                              [f EXCEPT !.resolved = TRUE, !.resolved_at = "set"]),
                          TRUE, FALSE, r.calls)
        ELSE RetryOutcome(SaveFailedCreation(r.store,
                              [f EXCEPT !.retry_count = @ + 1]),
                          FALSE, FALSE, r.calls)

(* The retry that counts a successful attempt as one more retry. *)
retry_failed_space_creation_Count(store, f, outcome) ==
    LET e == InstructorEmail(store, f.student)
        r == create_student_space(store, f.student, outcome)
    IN  IF e.raised THEN RetryOutcome(store, FALSE, TRUE, <<>>)
        ELSE IF e.email = NoEmail THEN RetryOutcome(store, FALSE, FALSE, <<>>)
        ELSE RetryOutcome(SaveFailedCreation(r.store,
                              [f EXCEPT !.retry_count = @ + 1,
                                        !.resolved = r.success,
                                        !.resolved_at = IF r.success THEN "set" ELSE @]),
                          r.success, FALSE, r.calls)

retry_failed_space_creation(store, f, outcome) ==
    LET e == InstructorEmail(store, f.student)
        r == create_student_space(store, f.student, outcome)
    IN  IF e.raised THEN RetryOutcome(store, FALSE, TRUE, <<>>)
        ELSE IF e.email = NoEmail THEN RetryOutcome(store, FALSE, FALSE, <<>>)
        ELSE IF r.success
        THEN RetryOutcome(SaveFailedCreation(r.store,
                              [f EXCEPT !.resolved = TRUE, !.resolved_at = "set"]),
                          TRUE, FALSE, r.calls)
        ELSE RetryOutcome(SaveFailedCreation(r.store,
                              [f EXCEPT !.retry_count = @ + 1]),
                          FALSE, FALSE, r.calls)

(* Deleting a Class: Student.class_assignment is SET_NULL. *)
DeleteClassCascade(store, class_id) ==
    [store EXCEPT
        !.Class = {c \in @ : c.id # class_id},
        !.Student = {IF p.class_assignment = class_id
                     THEN [p EXCEPT !.class_assignment = NoId] ELSE p : p \in @}]

-----------------------------------------------------------------------------
(* SpecSpaces: the orchestrator, called once on students of one class that  *)
(* an auto-hierarchy import has just created, then retries of the failed    *)
(* attempts, with the class being deleted in between.                       *)

RECURSIVE SetToSeq(_)
SetToSeq(S) ==
    IF S = {} THEN <<>>
    ELSE LET x == CHOOSE x \in S : TRUE IN <<x>> \o SetToSeq(S \ {x})

ImportedStore(ts, n) ==
    create_students_from_csv_with_auto_school_class(
        InitStore(ts, 0, {}, 0),
        [i \in 1..n |-> CHOOSE r \in PlainRows : r.school_name = "s1"],
        Instructor(1), CHOOSE y \in Years : TRUE, ts, <<1, 2>>).store

InitSpaces ==
    /\ \E ts \in Stamps, n \in 1..MaxRows : db = ImportedStore(ts, n)
    /\ session = NoUpload
    /\ last = [op |-> "init"]
    /\ req = IdleReq

CreateSpacesForStudents ==
    /\ last.op = "init"
    /\ \E S \in (SUBSET {p.user : p \in db.Student}) \ {{}} :
       \E api \in [S -> ApiOutcomes] :
          \E students \in {SetToSeq(S)} :
          \E out \in {create_spaces_for_students(db, students, api)} :
              /\ Cardinality(out.store.FailedSpaceCreation) <= MaxFailed
              /\ db' = out.store
              /\ last' = [op |-> "spaces", pre |-> db, students |-> students,
                          total |-> out.total, success |-> out.success,
                          failed |-> out.failed, details |-> out.details,
                          calls |-> out.calls]
    /\ UNCHANGED <<session, req>>

RetryFailedSpaceCreation ==
    /\ \E f \in db.FailedSpaceCreation, outcome \in ApiOutcomes :
          \E out \in {retry_failed_space_creation(db, f, outcome)} :
              /\ Cardinality(out.store.FailedSpaceCreation) <= MaxFailed
              /\ db' = out.store
              /\ last' = [op |-> "retry", pre |-> db, attempt |-> f,
                          success |-> out.success, raised |-> out.raised,
                          calls |-> out.calls]
    /\ UNCHANGED <<session, req>>

DeleteClass ==
    /\ \E c \in db.Class :
          /\ db' = DeleteClassCascade(db, c.id)
          /\ last' = [op |-> "delete_class", pre |-> db]
    /\ UNCHANGED <<session, req>>

NextSpaces == CreateSpacesForStudents \/ RetryFailedSpaceCreation \/ DeleteClass

SpecSpaces == InitSpaces /\ [][NextSpaces]_vars

FailedOf(store, student) == {f \in store.FailedSpaceCreation : f.student = student}
AttemptNow == CHOOSE f \in db.FailedSpaceCreation : f.id = last.attempt.id

C7_RetryUnassigned ==
    (/\ last.op = "retry"
     /\ ProfileOf(last.pre, last.attempt.student).class_assignment = NoId) =>
        /\ ~last.success /\ ~last.raised
        /\ last.calls = <<>>
        /\ db = last.pre

C7_Witness ==
    /\ last.op = "retry"
    /\ ProfileOf(last.pre, last.attempt.student).class_assignment = NoId
    /\ ~last.success

-----------------------------------------------------------------------------
(* ZEPClient._make_request (spaces/zep_client.py).  One step is one HTTP    *)
(* request and the handling of its response; the recursive call of a retry  *)
(* is the next step with retry_count + 1.  A response is "200", "429",      *)
(* "500" (any 5xx), "404" (any other 4xx), "timeout"                        *)
(* (requests.exceptions.Timeout) or "connection" (any other                 *)
(* RequestException).  sleeps lists the arguments of time.sleep; result is  *)
(* the payload returned or the message of the ZEPAPIError raised, and       *)
(* cause the underlying error that the message ends with, if any.           *)

Responses == {"200", "429", "500", "404", "timeout", "connection"}

Retry(r, wait_time) ==
    [r EXCEPT !.sleeps = Append(@, wait_time), !.retry_count = @ + 1]

Raise(r, error) == [r EXCEPT !.pc = "raised", !.result = error]

(* The exception the handler has caught: the one of the last request, the  *)
(* HTTPError of raise_for_status for a status code.                        *)
Caught(r) == r.responses[Len(r.responses)]

(* The handler that multiplies the delay by the attempt number. *)
RequestExceptionHandler_Linear(r) ==
    IF r.retry_count < max_retries THEN Retry(r, retry_delay * (r.retry_count + 1))
    ELSE [Raise(r, "Request failed") EXCEPT !.cause = Caught(r)]

(* The handler with a retry counter of its own, which allows one retry     *)
(* more than the shared counter.                                           *)
RequestExceptionHandler_OwnCounter(r) ==
    IF r.retry_count <= max_retries THEN Retry(r, retry_delay)
    ELSE [Raise(r, "Request failed") EXCEPT !.cause = Caught(r)]

(* except requests.exceptions.RequestException as e, which HTTPError is:    *)
(* the message of the ZEPAPIError ends with e.                              *)
RequestExceptionHandler(r) ==
    IF r.retry_count < max_retries THEN Retry(r, retry_delay)
    ELSE [Raise(r, "Request failed") EXCEPT !.cause = Caught(r)]

(* The handling of a 429 response that waits the flat delay. *)
HandleResponse_FlatDelay(r, resp) ==
    IF resp = "429"
    THEN IF r.retry_count < max_retries
         THEN Retry(r, retry_delay)
         ELSE Raise(r, "Rate limit exceeded")
    ELSE IF resp = "200" THEN [r EXCEPT !.pc = "returned", !.result = "200"]
    ELSE RequestExceptionHandler(r)

(* The handling of a response that lets the HTTPError of the last 5xx      *)
(* response leave the request.                                             *)
HandleResponse_HTTPError(r, resp) ==
    IF resp \in {"429", "500"} /\ r.retry_count < max_retries
    THEN Retry(r, retry_delay * (r.retry_count + 1))
    ELSE IF resp = "429" THEN Raise(r, "Rate limit exceeded")
    ELSE IF resp = "500" THEN Raise(r, "HTTPError")
    ELSE IF resp = "200" THEN [r EXCEPT !.pc = "returned", !.result = "200"]
    ELSE RequestExceptionHandler(r)

(* The handling of a response that does not sleep before the last retry. *)
HandleResponse_TwoSleeps(r, resp) ==
    IF resp = "429" /\ r.retry_count + 1 < max_retries
    THEN Retry(r, retry_delay * (r.retry_count + 1))
    ELSE IF resp = "429" /\ r.retry_count < max_retries
    THEN [r EXCEPT !.retry_count = @ + 1]
    ELSE IF resp = "429" THEN Raise(r, "Rate limit exceeded")
    ELSE IF resp = "200" THEN [r EXCEPT !.pc = "returned", !.result = "200"]
    ELSE RequestExceptionHandler(r)

HandleResponse(r, resp) ==
    IF resp = "429"
    THEN IF r.retry_count < max_retries
         THEN Retry(r, retry_delay * (r.retry_count + 1))
         ELSE Raise(r, "Rate limit exceeded")
    ELSE IF resp = "500" /\ r.retry_count < max_retries
    THEN Retry(r, retry_delay * (r.retry_count + 1))
    ELSE IF resp \in {"500", "404"}
    THEN RequestExceptionHandler(r)
    ELSE IF resp = "200"
    THEN [r EXCEPT !.pc = "returned", !.result = "200"]
    ELSE IF resp = "timeout"
    THEN IF r.retry_count < max_retries THEN Retry(r, retry_delay)
         ELSE Raise(r, "Request timeout")
    ELSE RequestExceptionHandler(r)

make_request(r, resp) ==
    HandleResponse([r EXCEPT !.requests = @ + 1,
                             !.responses = Append(@, resp)], resp)

InitClient ==
    /\ db = EmptyStore
    /\ session = NoUpload
    /\ last = [op |-> "init"]
    /\ req = IdleReq

StartRequest ==
    /\ req.pc = "idle"
    /\ req' = [req EXCEPT !.pc = "sending"]
    /\ UNCHANGED <<db, session, last>>

SendRequest ==
    /\ req.pc = "sending"
    /\ \E resp \in Responses : req' = make_request(req, resp)
    /\ UNCHANGED <<db, session, last>>

NextClient == StartRequest \/ SendRequest

SpecClient == InitClient /\ [][NextClient]_vars

Three429 == <<"429", "429", "429">>

(* C10 as stated: after three 429 responses and a 200 the request returns   *)
(* the 200 payload and has slept exactly twice.                             *)
C10_SleepsTwice ==
    req.responses = Three429 \o <<"200">> =>
        /\ req.pc = "returned" /\ req.result = "200"
        /\ Len(req.sleeps) = 2

(* C10 amended: after three 429 responses the client has slept three times  *)
(* (2, 4 and 6 seconds) and sends a fourth request; when that is answered   *)
(* with 200 the request returns the 200 payload, after four requests and    *)
(* those three sleeps.                                                      *)
C10_SleepsThreeTimes ==
    /\ req.responses = Three429 =>
          /\ req.pc = "sending" /\ req.retry_count = max_retries
          /\ req.sleeps = <<retry_delay, 2 * retry_delay, 3 * retry_delay>>
    /\ req.responses = Three429 \o <<"200">> =>
          /\ req.pc = "returned" /\ req.result = "200"
          /\ req.requests = 4
          /\ req.sleeps = <<retry_delay, 2 * retry_delay, 3 * retry_delay>>

C10_Witness ==
    /\ req.responses = Three429 \o <<"200">>
    /\ req.pc = "returned"

All(responses, kinds) == \A i \in 1..Len(responses) : responses[i] \in kinds
Linear(n) == [i \in 1..n |-> retry_delay * i]
Flat(n) == [i \in 1..n |-> retry_delay]
LastResponse == req.responses[Len(req.responses)]

(* C11: on consecutive 429 responses the client waits retry_delay times the *)
(* number of the retry before each retry (2, 4, 6), retries at most         *)
(* max_retries times, and when the response to the last retry is 429 again  *)
(* the request fails with "Rate limit exceeded" after max_retries + 1       *)
(* requests and max_retries sleeps.                                         *)
C11_RateLimitExhaustion ==
    (req.responses # <<>> /\ All(req.responses, {"429"})) =>
        /\ Len(req.responses) <= max_retries + 1
        /\ req.requests = Len(req.responses)
        /\ Len(req.responses) <= max_retries =>
              /\ req.pc = "sending" /\ req.retry_count = Len(req.responses)
              /\ req.sleeps = Linear(Len(req.responses))
        /\ Len(req.responses) = max_retries + 1 =>
              /\ req.pc = "raised" /\ req.result = "Rate limit exceeded"
              /\ req.sleeps = Linear(max_retries)

C11_Witness ==
    /\ Len(req.responses) = max_retries + 1 /\ All(req.responses, {"429"})
    /\ req.pc = "raised"

(* C12 as stated: on timeouts and connection failures the client retries   *)
(* at most max_retries times with the flat delay, and when the retries are *)
(* exhausted the request fails with "Request failed" and the last          *)
(* underlying error.                                                       *)
C12_NetworkFailureRequestFailed ==
    (req.responses # <<>> /\ All(req.responses, {"timeout", "connection"})) =>
        /\ Len(req.responses) <= max_retries + 1
        /\ req.sleeps = Flat(req.retry_count)
        /\ Len(req.responses) = max_retries + 1 =>
              /\ req.pc = "raised" /\ req.result = "Request failed"
              /\ req.cause = LastResponse

(* C12 amended: the retries are as stated; when they are exhausted by a    *)
(* connection failure the request fails with "Request failed" and that     *)
(* error, and when they are exhausted by a timeout it fails with           *)
(* "Request timeout", whose message names no underlying error.             *)
C12_NetworkFailureRetries ==
    (req.responses # <<>> /\ All(req.responses, {"timeout", "connection"})) =>
        /\ Len(req.responses) <= max_retries + 1
        /\ req.requests = Len(req.responses)
        /\ Len(req.responses) <= max_retries =>
              /\ req.pc = "sending" /\ req.retry_count = Len(req.responses)
              /\ req.sleeps = Flat(Len(req.responses))
        /\ Len(req.responses) = max_retries + 1 =>
              /\ req.pc = "raised" /\ req.sleeps = Flat(max_retries)
              /\ LastResponse = "connection" =>
                    req.result = "Request failed" /\ req.cause = "connection"
              /\ LastResponse = "timeout" =>
                    req.result = "Request timeout" /\ req.cause = "none"

(* Retries exhausted by connection failures, the last one after a timeout. *)
C12_Witness ==
    /\ req.responses = <<"connection", "timeout", "connection", "connection">>
    /\ req.pc = "raised"

(* C13 as stated: on 5xx responses the client backs off as for 429, and    *)
(* the HTTPError of the 5xx response that follows the last retry reaches   *)
(* the caller, without another retry or sleep.                             *)
C13_ServerErrorPropagates ==
    (req.responses # <<>> /\ All(req.responses, {"500"})) =>
        /\ Len(req.responses) <= max_retries + 1
        /\ req.sleeps = Linear(req.retry_count)
        /\ Len(req.responses) = max_retries + 1 =>
              /\ req.pc = "raised" /\ req.result = "HTTPError"

(* C13 amended: the back-off is as stated; the HTTPError of the 5xx        *)
(* response that follows the last retry is caught by the handler of        *)
(* RequestException and, the retries being exhausted, the request fails    *)
(* with "Request failed" and that HTTP error, without another retry or     *)
(* sleep.                                                                  *)
C13_ServerErrorRequestFailed ==
    (req.responses # <<>> /\ All(req.responses, {"500"})) =>
        /\ Len(req.responses) <= max_retries + 1
        /\ req.requests = Len(req.responses)
        /\ Len(req.responses) <= max_retries =>
              /\ req.pc = "sending" /\ req.retry_count = Len(req.responses)
              /\ req.sleeps = Linear(Len(req.responses))
        /\ Len(req.responses) = max_retries + 1 =>
              /\ req.pc = "raised" /\ req.result = "Request failed"
              /\ req.cause = "500"
              /\ req.sleeps = Linear(max_retries)

C13_Witness ==
    /\ Len(req.responses) = max_retries + 1 /\ All(req.responses, {"500"})
    /\ req.pc = "raised"

-----------------------------------------------------------------------------
(* The confirm step of student_upload (students/views.py).  selected is     *)
(* the list of the checked row indices, 0-based as in the form.             *)

SelectedRows(students_data, selected) ==
    IF selected = <<>> THEN students_data
    ELSE LET kept == SelectSeq(selected, LAMBDA idx : idx < Len(students_data))
         IN  [i \in 1..Len(kept) |-> students_data[kept[i] + 1]]

(* The guard that skips the orchestrator already at the threshold. *)
SkipAutoSpace_AtThreshold(n) == n >= MAX_BATCH_SIZE_FOR_AUTO_SPACE

(* len(students_without_space) > MAX_BATCH_SIZE_FOR_AUTO_SPACE *)
SkipAutoSpace(n) == n > MAX_BATCH_SIZE_FOR_AUTO_SPACE

NoSummary == [total |-> 0, success |-> 0, failed |-> 0, details |-> <<>>, calls |-> <<>>]

ConfirmOutcome(store, sess, status, bulk, without, invoked, summary) ==
    [store |-> store, session |-> sess, status |-> status,
     created |-> bulk.created, results |-> bulk.results,
     students_without_space |-> without, invoked |-> invoked,
     total |-> summary.total, success |-> summary.success,
     failed |-> summary.failed, details |-> summary.details,
     calls |-> summary.calls]

(* What the external API answers to the students the orchestrator is       *)
(* called with: the same to all, or an error to the first of them only;     *)
(* "malformed" is a 200 answer whose JSON body is no object, on which       *)
(* response.get of create_space raises AttributeError, which is no          *)
(* ZEPAPIError and leaves create_student_space and the orchestrator.        *)
ApiKinds == {"ok", "create_error", "permission_error", "first_fails", "malformed"}

ApiOf(kind, students) ==
    [st \in {students[i] : i \in 1..Len(students)} |->
        IF kind = "first_fails"
        THEN (IF st = students[1] THEN "create_error" ELSE "ok")
        ELSE kind]

(* [s for s in created_students if not s.zep_space_url] *)
StudentsWithoutSpace(bulk) ==
    LET lacking == SelectSeq(bulk.created, LAMBDA st : st.zep_space_url = "")
    IN  [i \in 1..Len(lacking) |-> lacking[i].user]

(* The confirm step once the accounts are created: the guard and the        *)
(* orchestrator.  An exception that leaves the orchestrator is caught by    *)
(* the handler's except Exception, before del request.session[...].         *)
ConfirmSpaces(sess, bulk, without, kind) ==
    IF without = <<>> \/ SkipAutoSpace(Len(without))
    THEN ConfirmOutcome(bulk.store, NoUpload, "done", bulk, without, FALSE, NoSummary)
    ELSE IF kind = "malformed"
    THEN ConfirmOutcome(bulk.store, sess, "space_error", bulk, without, TRUE, NoSummary)
    ELSE CHOOSE out \in
            {ConfirmOutcome(spaces.store, NoUpload, "done", bulk, without, TRUE, spaces) :
                spaces \in {create_spaces_for_students(bulk.store, without,
                                                       ApiOf(kind, without))}} : TRUE

(* The confirm step after the bulk provisioning: a StudentCreationError     *)
(* ends it with the store rolled back and the session kept.                 *)
ConfirmCreated(sess, bulk, kind) ==
    IF bulk.raised
    THEN ConfirmOutcome(bulk.store, sess, "error", bulk, <<>>, FALSE, NoSummary)
    ELSE CHOOSE out \in
            {ConfirmSpaces(sess, bulk, without, kind) :
                without \in {StudentsWithoutSpace(bulk)}} : TRUE

confirm_upload(store, sess, selected, instructor, year, ts, script, kind) ==
    IF ~sess.present
    THEN ConfirmOutcome(store, sess, "no_upload",
                        [created |-> <<>>, results |-> <<>>], <<>>, FALSE, NoSummary)
    ELSE CHOOSE out \in
            {ConfirmCreated(sess, bulk, kind) :
                bulk \in {create_students_from_csv_with_auto_school_class(
                              store, SelectedRows(sess.students, selected),
                              instructor, year, ts, script)}} : TRUE

-----------------------------------------------------------------------------
(* SpecConfirm: one uploaded roster, previewed and confirmed.  The rosters  *)
(* have sizes around the threshold and up to two rows that bring their own  *)
(* space URL.                                                               *)

RosterSizes ==
    {1, MAX_BATCH_SIZE_FOR_AUTO_SPACE - 1, MAX_BATCH_SIZE_FOR_AUTO_SPACE,
     MAX_BATCH_SIZE_FOR_AUTO_SPACE + 1, MAX_BATCH_SIZE_FOR_AUTO_SPACE + 2}

UploadedRoster(n, with_url) ==
    [i \in 1..n |->
        [school_name |-> "s1", class_name |-> "c1", student_name |-> "n1",
         zep_space_url |-> IF i <= with_url THEN "u" ELSE "", fault |-> "none"]]

(* A random source that repeats no suffix within one roster. *)
FreshScript == [i \in 1..(MAX_BATCH_SIZE_FOR_AUTO_SPACE + SafetyLimit) |-> i]

Selections(n) == {<<>>, [i \in 1..n |-> i - 1], [i \in 1..(n - 1) |-> i]}

InitConfirm ==
    /\ \E ts \in Stamps, level \in {0, 1}, h \in {"none", "one"} :
          db = WithHierarchy(InitStore(ts, level, {1}, 0), h)
    /\ session = NoUpload
    /\ last = [op |-> "init"]
    /\ req = IdleReq

Preview ==
    /\ last.op = "init"
    /\ \E n \in RosterSizes, with_url \in 0..MaxRows :
          /\ with_url <= n
          /\ session' = [present |-> TRUE, students |-> UploadedRoster(n, with_url)]
    /\ last' = [op |-> "preview"]
    /\ UNCHANGED <<db, req>>

Confirm ==
    /\ last.op \in {"init", "preview"}
    /\ \E selected \in Selections(Len(session.students)),
          instructor \in Instructors, year \in Years, ts \in Stamps,
          kind \in ApiKinds :
          \E out \in {confirm_upload(db, session, selected, instructor, year, ts,
                                     FreshScript, kind)} :
              /\ db' = out.store
              /\ session' = out.session
              /\ last' = [op |-> "confirm", pre |-> db, status |-> out.status,
                          uploaded |-> session, selected |-> selected,
                          instructor |-> instructor,
                          created |-> out.created, results |-> out.results,
                          students_without_space |-> out.students_without_space,
                          invoked |-> out.invoked, total |-> out.total,
                          success |-> out.success, failed |-> out.failed,
                          details |-> out.details, calls |-> out.calls]
    /\ UNCHANGED req

(* A second confirm request of the same session and instructor. *)
ConfirmAgain ==
    /\ last.op = "confirm"
    /\ \E year \in Years, ts \in Stamps :
          \E out \in {confirm_upload(db, session, <<>>, last.instructor, year, ts,
                                     FreshScript, "ok")} :
              /\ db' = out.store
              /\ session' = out.session
              /\ last' = [op |-> "confirm_again", pre |-> db, status |-> out.status,
                          first_status |-> last.status,
                          first |-> Added(db.User, last.pre.User)]
    /\ UNCHANGED req

NextConfirm == Preview \/ Confirm \/ ConfirmAgain

SpecConfirm == InitConfirm /\ [][NextConfirm]_vars

Range(seq) == {seq[i] : i \in 1..Len(seq)}

(* The students the confirm step created without a space URL of their own. *)
CreatedLackingSpace ==
    {st \in {c.user : c \in Range(last.created)} :
        \E p \in db.Student : p.user = st /\ p.zep_space_url # "u"}

(* C5: when more than 30 freshly created students lack a space URL the      *)
(* orchestrator is not invoked: no external call, no FailedSpaceCreation    *)
(* and no space URL is written, and the created accounts stay; when there   *)
(* are at most 30, and at least one, it is invoked for all of them.         *)
C5_SpaceGuard ==
    (last.op = "confirm" /\ last.status = "done") =>
        /\ \A c \in Range(last.created) :
              /\ c.user \in Usernames(db.User)
              /\ \E p \in db.Student : p.user = c.user
        /\ Cardinality(CreatedLackingSpace) > MAX_BATCH_SIZE_FOR_AUTO_SPACE =>
              /\ ~last.invoked
              /\ last.calls = <<>>
              /\ db.FailedSpaceCreation = last.pre.FailedSpaceCreation
              /\ \A p \in db.Student : p.zep_space_url # "zep"
        /\ Cardinality(CreatedLackingSpace) \in 1..MAX_BATCH_SIZE_FOR_AUTO_SPACE =>
              /\ last.invoked
              /\ last.total = Cardinality(CreatedLackingSpace)
              /\ {last.details[i].student : i \in 1..Len(last.details)}
                    = CreatedLackingSpace
              /\ Len(last.details) = Cardinality(CreatedLackingSpace)

(* 31 accounts created without space URL and the orchestrator skipped. *)
C5_Witness ==
    /\ last.op = "confirm" /\ last.status = "done"
    /\ Cardinality(CreatedLackingSpace) = MAX_BATCH_SIZE_FOR_AUTO_SPACE + 1
    /\ ~last.invoked
    /\ Added(db.User, last.pre.User) = MAX_BATCH_SIZE_FOR_AUTO_SPACE + 1

-----------------------------------------------------------------------------
(* CSVValidator (students/validators.py).  A file is its header, the set of *)
(* its column names, and its data rows.  A text cell is a string, NoCell    *)
(* when the cell is empty (pandas reads NaN); the strings of TextLength are *)
(* long texts of that many characters, every other string is short.  A      *)
(* numeric cell is a number, a text that is no number, or empty.            *)

REQUIRED_COLUMNS == <<"school_name", "class_name", "student_name">>
OPTIONAL_COLUMNS == <<"class_number", "grade", "zep_space_url">>

NoCell == "NaN"
TextLength ==
    [t200 |-> 200, t201 |-> 201, t100 |-> 100, t101 |-> 101,
     u500 |-> 500, u501 |-> 501]

(* len(text) *)
TextLen(t) ==
    IF t = "" THEN 0
    ELSE IF t \in DOMAIN TextLength THEN TextLength[t]
    ELSE 2

(* str.strip() *)
Strip(t) ==
    IF t = " " THEN ""
    ELSE IF t = "n1 " THEN "n1"
    ELSE t

(* fillna('').astype(str).str.strip() *)
CleanText(cell) == Strip(IF cell = NoCell THEN "" ELSE cell)

Num(v) == [kind |-> "num", v |-> v]
NaN == [kind |-> "nan", v |-> 0]
NotANumber == [kind |-> "text", v |-> 0]

(* pd.to_numeric(column, errors='coerce') *)
ToNumeric(cell) == IF cell.kind = "num" THEN cell ELSE NaN

(* pd.isna(value) *)
IsNa(cell) == cell.kind = "nan"

ColumnsError(missing) ==
    [kind |-> "columns", columns |-> missing, row_num |-> 0, field |-> "none"]
EmptyError ==
    [kind |-> "empty", columns |-> <<>>, row_num |-> 0, field |-> "none"]
RowError(row_num, field, kind) ==
    [kind |-> kind, columns |-> <<>>, row_num |-> row_num, field |-> field]

(* _validate_columns with one error for each missing column. *)
validate_columns_PerColumn(header) ==
    LET missing == SelectSeq(REQUIRED_COLUMNS, LAMBDA col : col \notin header)
    IN  [i \in 1..Len(missing) |-> ColumnsError(<<missing[i]>>)]

(* CSVValidator._validate_columns: the errors it appends; it returns False *)
(* when there is one.                                                      *)
validate_columns(header) ==
    LET missing == SelectSeq(REQUIRED_COLUMNS, LAMBDA col : col \notin header)
    IN  IF missing # <<>> THEN <<ColumnsError(missing)>> ELSE <<>>

(* The cleaning at the head of _validate_data. *)
CleanRow(header, row) ==
    [school_name |-> CleanText(row.school_name),
     class_name |-> CleanText(row.class_name),
     student_name |-> CleanText(row.student_name),
     class_number |-> IF "class_number" \in header THEN ToNumeric(row.class_number)
                      ELSE NaN,
     grade |-> IF "grade" \in header THEN ToNumeric(row.grade) ELSE NaN,
     zep_space_url |-> IF "zep_space_url" \in header THEN CleanText(row.zep_space_url)
                       ELSE ""]

NameErrors(row_num, field, text, limit) ==
    IF text = "" THEN <<RowError(row_num, field, "missing")>>
    ELSE IF TextLen(text) > limit THEN <<RowError(row_num, field, "too_long")>>
    ELSE <<>>

(* The checks of one row of the loop of _validate_data. *)
RowErrors(row_num, row) ==
    NameErrors(row_num, "school_name", row.school_name, 200)
    \o NameErrors(row_num, "class_name", row.class_name, 100)
    \o NameErrors(row_num, "student_name", row.student_name, 100)
    \o (IF ~IsNa(row.grade) /\ (row.grade.v < 1 \/ row.grade.v > 6)
        THEN <<RowError(row_num, "grade", "range")>> ELSE <<>>)
    \o (IF ~IsNa(row.class_number) /\ row.class_number.v < 1
        THEN <<RowError(row_num, "class_number", "range")>> ELSE <<>>)
    \o (IF row.zep_space_url # "" /\ TextLen(row.zep_space_url) > 500
        THEN <<RowError(row_num, "zep_space_url", "too_long")>> ELSE <<>>)

(* _validate_data that stops at the first row with an error. *)
RECURSIVE validate_data_FirstRow(_, _)
validate_data_FirstRow(rows, idx) ==
    IF rows = <<>> THEN <<>>
    ELSE IF RowErrors(idx + 2, Head(rows)) # <<>> THEN RowErrors(idx + 2, Head(rows))
    ELSE validate_data_FirstRow(Tail(rows), idx + 1)

(* The loop of CSVValidator._validate_data over the cleaned rows, from     *)
(* data index idx on: the errors it appends.                               *)
RECURSIVE validate_data(_, _)
validate_data(rows, idx) ==
    IF rows = <<>> THEN <<>>
    ELSE RowErrors(idx + 2, Head(rows)) \o validate_data(Tail(rows), idx + 1)

Invalid(errors) == [valid |-> FALSE, data |-> <<>>, errors |-> errors]

(* CSVValidator.validate on a file that parses. *)
validate(file) ==
    LET cleaned == [i \in 1..Len(file.rows) |-> CleanRow(file.header, file.rows[i])]
    IN  IF validate_columns(file.header) # <<>>
        THEN Invalid(validate_columns(file.header))
        ELSE IF file.rows = <<>> THEN Invalid(<<EmptyError>>)
        ELSE IF validate_data(cleaned, 0) # <<>> THEN Invalid(validate_data(cleaned, 0))
        ELSE [valid |-> TRUE, data |-> cleaned, errors |-> <<>>]

-----------------------------------------------------------------------------
(* SpecValidate: validate applied to the files of a family: every header   *)
(* with the required columns or some of them, rows that differ from a      *)
(* well-formed row in one cell, and a row with an error in every cell.     *)

AllColumns == {REQUIRED_COLUMNS[i] : i \in 1..3} \cup {OPTIONAL_COLUMNS[i] : i \in 1..3}

Headers ==
    {AllColumns \ missing : missing \in SUBSET {REQUIRED_COLUMNS[i] : i \in 1..3}}
    \cup {{REQUIRED_COLUMNS[i] : i \in 1..3}}

RawRow(school, name) ==
    [school_name |-> school, class_name |-> "c1", student_name |-> name,
     class_number |-> NaN, grade |-> NaN, zep_space_url |-> NoCell]

AllBadRow ==
    [school_name |-> "t201", class_name |-> NoCell, student_name |-> "t101",
     class_number |-> Num(0), grade |-> Num(7), zep_space_url |-> "u501"]

RawRows ==
    {RawRow("s1", "n1"), RawRow("s2", "n2"), AllBadRow}
    \cup {[RawRow("s1", "n1") EXCEPT !.school_name = v] : v \in {NoCell, "t200", "t201"}}
    \cup {[RawRow("s1", "n1") EXCEPT !.class_name = v] : v \in {" ", "t101"}}
    \cup {[RawRow("s1", "n1") EXCEPT !.student_name = v] : v \in {"n1 ", "t100", "t101"}}
    \cup {[RawRow("s1", "n1") EXCEPT !.grade = v] :
             v \in {NotANumber, Num(0), Num(6), Num(7)}}
    \cup {[RawRow("s1", "n1") EXCEPT !.class_number = v] : v \in {Num(0), Num(1)}}
    \cup {[RawRow("s1", "n1") EXCEPT !.zep_space_url = v] : v \in {"u500", "u501"}}

Files(n) == [header : Headers, rows : [1..n -> RawRows]]

InitValidate ==
    /\ db = EmptyStore
    /\ session = NoUpload
    /\ last = [op |-> "init"]
    /\ req = IdleReq

Validate ==
    /\ last.op = "init"
    /\ \E n \in 0..MaxRows : \E file \in Files(n) :
       \E out \in {validate(file)} :
          last' = [op |-> "validate", file |-> file, valid |-> out.valid,
                   data |-> out.data, errors |-> out.errors]
    /\ UNCHANGED <<db, session, req>>

NextValidate == Validate

SpecValidate == InitValidate /\ [][NextValidate]_vars

MissingColumns(file) == {REQUIRED_COLUMNS[i] : i \in 1..3} \ file.header
RowNumbered(errors) == {i \in 1..Len(errors) : errors[i].row_num # 0}

(* C14 as stated: when a required column is missing from the header the    *)
(* validation fails with no accepted row, one error for each missing       *)
(* column, and no row-numbered error.                                      *)
C14_OneErrorPerMissingColumn ==
    (last.op = "validate" /\ MissingColumns(last.file) # {}) =>
        /\ ~last.valid /\ last.data = <<>>
        /\ Len(last.errors) = Cardinality(MissingColumns(last.file))
        /\ RowNumbered(last.errors) = {}

(* C14 amended: when a required column is missing from the header the      *)
(* validation fails with no accepted row and exactly one error, which      *)
(* names all the missing columns; no row is validated, so no row-numbered  *)
(* error is produced.                                                      *)
C14_StructuralShortCircuit ==
    (last.op = "validate" /\ MissingColumns(last.file) # {}) =>
        /\ ~last.valid /\ last.data = <<>>
        /\ Len(last.errors) = 1
        /\ last.errors[1].kind = "columns"
        /\ {last.errors[1].columns[i] : i \in 1..Len(last.errors[1].columns)}
              = MissingColumns(last.file)
        /\ RowNumbered(last.errors) = {}

(* Two columns are missing and the rows hold errors of their own. *)
C14_Witness ==
    /\ last.op = "validate"
    /\ Cardinality(MissingColumns(last.file)) = 2
    /\ \E i \in 1..Len(last.file.rows) : last.file.rows[i] = AllBadRow
    /\ ~last.valid

(* The violations of the cleaned row at data index idx, as (field, kind). *)
Violations(file, i) ==
    LET row == CleanRow(file.header, file.rows[i])
    IN  {<<"school_name", "missing">> : x \in {1} \cap {y \in {1} : row.school_name = ""}}
        \cup {<<"school_name", "too_long">> : x \in {y \in {1} : TextLen(row.school_name) > 200}}
        \cup {<<"class_name", "missing">> : x \in {y \in {1} : row.class_name = ""}}
        \cup {<<"class_name", "too_long">> : x \in {y \in {1} : TextLen(row.class_name) > 100}}
        \cup {<<"student_name", "missing">> : x \in {y \in {1} : row.student_name = ""}}
        \cup {<<"student_name", "too_long">> : x \in {y \in {1} : TextLen(row.student_name) > 100}}
        \cup {<<"grade", "range">> : x \in {y \in {1} : row.grade.kind = "num" /\ row.grade.v \notin 1..6}}
        \cup {<<"class_number", "range">> : x \in {y \in {1} : row.class_number.kind = "num" /\ row.class_number.v < 1}}
        \cup {<<"zep_space_url", "too_long">> : x \in {y \in {1} : TextLen(row.zep_space_url) > 500}}

ErrorsOfRow(errors, row_num) ==
    {<<errors[k].field, errors[k].kind>> : k \in {j \in 1..Len(errors) : errors[j].row_num = row_num}}

RECURSIVE SumOver(_, _)
SumOver(n, f) == IF n = 0 THEN 0 ELSE f[n] + SumOver(n - 1, f)

-----------------------------------------------------------------------------
(* The preview step of student_upload (students/views.py): the file is     *)
(* validated, every accepted row is flagged, and the flagged rows are      *)
(* stored in the session.                                                  *)

(* queryset.first() of School and Class: the first row in Meta.ordering    *)
(* (name; newest academic_year).  The ordering leaves rows that tie in no  *)
(* defined order; the lowest primary key stands for the row the database   *)
(* returns.                                                                *)
First(found) ==
    CHOOSE x \in found : \A y \in found : x.id <= y.id

(* The body of the loop over students_data: the value of is_duplicate. *)
is_duplicate(store, row, user) ==
    LET schools == {s \in store.School : s.name = row.school_name}
        classes == {c \in store.Class :
                      /\ schools # {}
                      /\ c.name = row.class_name
                      /\ c.school = First(schools).id
                      /\ c.instructor = user}
        newest == {c \in classes : \A d \in classes : d.academic_year <= c.academic_year}
    IN  /\ schools # {}
        /\ classes # {}
        /\ \E p \in store.Student :
              /\ p.name = row.student_name
              /\ p.class_assignment = First(newest).id

FlaggedRow(row, flag) ==
    [school_name |-> row.school_name, class_name |-> row.class_name,
     student_name |-> row.student_name, class_number |-> row.class_number,
     grade |-> row.grade, zep_space_url |-> row.zep_space_url,
     is_duplicate |-> flag]

(* student_upload with 'preview' in request.POST, on a file the form       *)
(* accepts (extension and size): parse_csv raises when the validation      *)
(* fails, and the handler reports the error and leaves the session alone.  *)
student_upload_preview(store, sess, file, user) ==
    CHOOSE out \in
        {IF ~v.valid
         THEN [ok |-> FALSE, errors |-> v.errors, students |-> <<>>, session |-> sess]
         ELSE [ok |-> TRUE, errors |-> <<>>,
               students |-> [i \in 1..Len(v.data) |->
                               FlaggedRow(v.data[i], is_duplicate(store, v.data[i], user))],
               session |-> [present |-> TRUE,
                            students |-> [i \in 1..Len(v.data) |->
                               FlaggedRow(v.data[i],
                                          is_duplicate(store, v.data[i], user))]]]
          : v \in {validate(file)}} : TRUE

-----------------------------------------------------------------------------
(* SpecPreview: one preview of a file by an instructor, on a store with no *)
(* student yet or with the student n1 that one of the instructors has      *)
(* imported into class c1 of school s1.                                    *)

PreviewStores(ts) ==
    {InitStore(ts, 0, {}, 0)}
    \cup {create_students_from_csv_with_auto_school_class(
              InitStore(ts, 0, {}, 0),
              <<CHOOSE r \in PlainRows : r.school_name = "s1">>,
              importer, CHOOSE y \in Years : TRUE, ts, <<1, 2>>).store
          : importer \in Instructors}

PreviewRows ==
    {RawRow(school, name) : school \in {"s1", "s2"}, name \in {"n1", "n2", "n1 "}}
    \cup {AllBadRow}

InitPreview ==
    /\ \E ts \in Stamps : db \in PreviewStores(ts)
    /\ session = NoUpload
    /\ last = [op |-> "init"]
    /\ req = IdleReq

PreviewFile ==
    /\ last.op = "init"
    /\ \E n \in 1..MaxRows, user \in Instructors :
       \E rows \in [1..n -> PreviewRows] :
       \E file \in {[header |-> AllColumns, rows |-> rows]} :
       \E out \in {student_upload_preview(db, session, file, user)} :
          /\ session' = out.session
          /\ last' = [op |-> "preview_file", file |-> file, user |-> user,
                      ok |-> out.ok, students |-> out.students]
    /\ UNCHANGED <<db, req>>

NextPreview == PreviewFile

SpecPreview == InitPreview /\ [][NextPreview]_vars

(* An earlier row of the batch has the same school, class and student name. *)
EarlierInBatch(students, i) ==
    \E j \in 1..(i - 1) :
        /\ students[j].school_name = students[i].school_name
        /\ students[j].class_name = students[i].class_name
        /\ students[j].student_name = students[i].student_name

(* A persisted student has the name of the row, in the class of that name  *)
(* of the school of that name that the uploading instructor owns.          *)
PersistedInClass(store, row, user) ==
    \E p \in store.Student, c \in store.Class, sc \in store.School :
        /\ p.name = row.student_name /\ p.class_assignment = c.id
        /\ c.name = row.class_name /\ c.instructor = user /\ c.school = sc.id
        /\ sc.name = row.school_name

(* C16: at preview every row of a valid file is accepted; a row is flagged *)
(* is_duplicate exactly when an earlier row of the batch has the same      *)
(* school, class and student name, or a persisted student of the same      *)
(* class has that name.                                                    *)
C16_DuplicateFlagging ==
    (last.op = "preview_file" /\ last.ok) =>
        /\ Len(last.students) = Len(last.file.rows)
        /\ session.present /\ session.students = last.students
        /\ \A i \in 1..Len(last.students) :
              last.students[i].is_duplicate
                 <=> \/ EarlierInBatch(last.students, i)
                     \/ PersistedInClass(db, last.students[i], last.user)

(* What the preview does: only persisted students make a row a duplicate. *)
C16_PersistedFlagged ==
    (last.op = "preview_file" /\ last.ok) =>
        /\ Len(last.students) = Len(last.file.rows)
        /\ \A i \in 1..Len(last.students) :
              last.students[i].is_duplicate
                 <=> PersistedInClass(db, last.students[i], last.user)

(* A persisted duplicate is flagged, for the instructor who owns the class. *)
C16_Flagged ==
    /\ last.op = "preview_file" /\ last.ok
    /\ \E i \in 1..Len(last.students) : last.students[i].is_duplicate

-----------------------------------------------------------------------------
(* Deletion (the on_delete rules of students/models.py).  Django collects  *)
(* the rows that reference a deleted row: CASCADE deletes them in turn,    *)
(* SET_NULL clears the reference.                                          *)

(* Student.delete(): FailedSpaceCreation.student is CASCADE. *)
DeleteStudentCascade(store, users) ==
    [store EXCEPT
        !.Student = {p \in @ : p.user \notin users},
        !.FailedSpaceCreation = {f \in @ : f.student \notin users}]

(* School.delete(): Class.school is CASCADE, and with every class goes     *)
(* what DeleteClassCascade clears.                                         *)
DeleteSchoolCascade(store, schools) ==
    LET classes == {c.id : c \in {c \in store.Class : c.school \in schools}}
    IN  [store EXCEPT
            !.School = {sc \in @ : sc.id \notin schools},
            !.Class = {c \in @ : c.id \notin classes},
            !.Student = {IF p.class_assignment \in classes
                         THEN [p EXCEPT !.class_assignment = NoId] ELSE p : p \in @}]

(* User.delete(): School.instructor and Student.user are CASCADE,          *)
(* Class.instructor is SET_NULL.                                           *)
DeleteUserCascade(store, username) ==
    LET owned == {sc.id : sc \in {sc \in store.School : sc.instructor = username}}
        kept == DeleteStudentCascade(DeleteSchoolCascade(store, owned), {username})
    IN  [kept EXCEPT
            !.User = {u \in @ : u.username # username},
            !.Class = {IF c.instructor = username
                       THEN [c EXCEPT !.instructor = NoUser] ELSE c : c \in @}]

(* create_school (dashboard/views.py): refused when the name is empty or   *)
(* a school of that name exists.                                           *)
create_school(store, user, name) ==
    IF name = "" \/ \E sc \in store.School : sc.name = name
    THEN [success |-> FALSE, store |-> store]
    ELSE [success |-> TRUE,
          store |-> [store EXCEPT
              !.School = @ \cup {[id |-> store.nextId, name |-> name,
                                  instructor |-> user]},
              !.nextId = @ + 1]]

(* create_class (dashboard/views.py): School.objects.get raises for an     *)
(* unknown school_id; otherwise the class is created, with no uniqueness   *)
(* check.                                                                  *)
create_class(store, user, school_id, name, year) ==
    IF ~\E sc \in store.School : sc.id = school_id
    THEN [success |-> FALSE, store |-> store]
    ELSE [success |-> TRUE,
          store |-> [store EXCEPT
              !.Class = @ \cup {[id |-> store.nextId, name |-> name,
                                 school |-> school_id, instructor |-> user,
                                 academic_year |-> year]},
              !.nextId = @ + 1]]

-----------------------------------------------------------------------------
(* SpecLifecycle: schools and classes made in the dashboard or by imports, *)
(* spaces provisioned and retried, and accounts, profiles, classes and     *)
(* schools deleted, in any order.                                          *)

MaxSteps == 4       \* operations of one behaviour

LiveInstructors(store) ==
    {u.username : u \in {u \in store.User : u.role = "instructor"}}

Ids(rows) == {x.id : x \in rows}

(* The record of an operation: what it was, and what of the store before   *)
(* it the properties compare the store after it with.                      *)
Done(op, user, success, pre) ==
    [op |-> op, step |-> last.step + 1, user |-> user, success |-> success,
     schools |-> Ids(pre.School),
     classes |-> Ids({c \in pre.Class : c.instructor = user}),
     failed |-> pre.FailedSpaceCreation]

InitLifecycle ==
    /\ \E ts \in Stamps : db = InitStore(ts, 0, {}, 0)
    /\ session = NoUpload
    /\ last = [op |-> "init", step |-> 0]
    /\ req = IdleReq

CreateSchool ==
    /\ last.step < MaxSteps
    /\ \E user \in LiveInstructors(db), name \in {"", "s1"} :
       \E out \in {create_school(db, user, name)} :
          /\ db' = out.store
          /\ last' = Done("create_school", user, out.success, db)
    /\ UNCHANGED <<session, req>>

CreateClass ==
    /\ last.step < MaxSteps
    /\ \E user \in LiveInstructors(db), school_id \in Ids(db.School) \cup {NoId}, year \in Years :
       \E out \in {create_class(db, user, school_id, "c1", year)} :
          /\ db' = out.store
          /\ last' = Done("create_class", user, out.success, db)
    /\ UNCHANGED <<session, req>>

ImportRoster ==
    /\ last.step < MaxSteps
    /\ \E user \in LiveInstructors(db), row \in PlainRows, year \in Years, ts \in Stamps :
       \E out \in {create_students_from_csv_with_auto_school_class(
                       db, <<row>>, user, year, ts, <<1, 2>>)} :
          /\ db' = out.store
          /\ last' = Done("import", user, ~out.raised, db)
    /\ UNCHANGED <<session, req>>

ProvisionSpaces ==
    /\ last.step < MaxSteps
    /\ \E p \in db.Student, outcome \in {"ok", "create_error"} :
       \E out \in {create_spaces_for_students(db, <<p.user>>, [x \in {p.user} |-> outcome])} :
          /\ Cardinality(out.store.FailedSpaceCreation) <= MaxFailed
          /\ db' = out.store
          /\ last' = Done("provision", p.user, out.success = 1, db)
    /\ UNCHANGED <<session, req>>

RetryFailed ==
    /\ last.step < MaxSteps
    /\ \E f \in db.FailedSpaceCreation, outcome \in {"ok", "create_error"} :
       \E out \in {retry_failed_space_creation(db, f, outcome)} :
          /\ Cardinality(out.store.FailedSpaceCreation) <= MaxFailed
          /\ db' = out.store
          /\ last' = Done("retry_failed", f.student, out.success, db)
                      @@ [raised |-> out.raised, calls |-> out.calls]
    /\ UNCHANGED <<session, req>>

DeleteUser ==
    /\ last.step < MaxSteps
    /\ \E u \in db.User :
          /\ db' = DeleteUserCascade(db, u.username)
          /\ last' = Done("delete_user", u.username, TRUE, db)
    /\ UNCHANGED <<session, req>>

DeleteStudent ==
    /\ last.step < MaxSteps
    /\ \E p \in db.Student :
          /\ db' = DeleteStudentCascade(db, {p.user})
          /\ last' = Done("delete_student", p.user, TRUE, db)
    /\ UNCHANGED <<session, req>>

DeleteSchool ==
    /\ last.step < MaxSteps
    /\ \E sc \in db.School :
          /\ db' = DeleteSchoolCascade(db, {sc.id})
          /\ last' = Done("delete_school", NoUser, TRUE, db)
    /\ UNCHANGED <<session, req>>

DeleteClassOfSchool ==
    /\ last.step < MaxSteps
    /\ \E c \in db.Class :
          /\ db' = DeleteClassCascade(db, c.id)
          /\ last' = Done("delete_class", NoUser, TRUE, db)
    /\ UNCHANGED <<session, req>>

NextLifecycle ==
    \/ CreateSchool \/ CreateClass \/ ImportRoster \/ ProvisionSpaces
    \/ RetryFailed \/ DeleteUser \/ DeleteStudent \/ DeleteSchool
    \/ DeleteClassOfSchool

SpecLifecycle == InitLifecycle /\ [][NextLifecycle]_vars

(* C17: no operation other than the deletion of the school itself removes  *)
(* a school: the schools of the store before the operation are schools of  *)
(* the store after it.                                                     *)
C17_SchoolNeverAutoDeleted ==
    last.op \notin {"init", "delete_school"} => last.schools \subseteq Ids(db.School)

(* The deletions of classes, profiles and student accounts keep the schools. *)
C17_OtherDeletionsKeepSchools ==
    (\/ last.op \in {"delete_class", "delete_student"}
     \/ last.op = "delete_user" /\ last.user \notin Instructors)
        => last.schools \subseteq Ids(db.School)

(* C18: after the deletion of an instructor account every class that the   *)
(* instructor owned exists, with no instructor.                            *)
C18_InstructorDeletionKeepsClasses ==
    last.op = "delete_user" =>
        \A id \in last.classes :
            \E c \in db.Class : c.id = id /\ c.instructor = NoUser

(* The classes of schools that the deleted instructor does not own are     *)
(* kept, with no instructor.                                               *)
C18_ClassesOfOtherSchoolsKept ==
    last.op = "delete_user" =>
        \A id \in last.classes :
            \/ \E c \in db.Class : c.id = id /\ c.instructor = NoUser
            \/ id \notin Ids(db.Class) /\ last.schools \ Ids(db.School) # {}

(* C19: the failure records are an append-only trail: every record of the  *)
(* store before an operation is in the store after it, unchanged unless    *)
(* the operation is a retry, and a record is added only by a provisioning  *)
(* or a retry that failed.                                                 *)
C19_AppendOnlyTrail ==
    last.op # "init" =>
        /\ Ids(last.failed) \subseteq Ids(db.FailedSpaceCreation)
        /\ last.op # "retry_failed" => last.failed \subseteq db.FailedSpaceCreation
        /\ Ids(db.FailedSpaceCreation) \ Ids(last.failed) # {}
              => last.op \in {"provision", "retry_failed"} /\ ~last.success

(* Apart from the deletion of a profile or of a student account, the trail *)
(* is append-only.                                                         *)
C19_TrailKeptWhileStudentLives ==
    last.op \notin {"init", "delete_student", "delete_user"} =>
        /\ Ids(last.failed) \subseteq Ids(db.FailedSpaceCreation)
        /\ last.op # "retry_failed" => last.failed \subseteq db.FailedSpaceCreation
        /\ Ids(db.FailedSpaceCreation) \ Ids(last.failed) # {}
              => last.op \in {"provision", "retry_failed"} /\ ~last.success

-----------------------------------------------------------------------------
(* SpecPrimary: the spaces of one student (spaces/models.py) under the     *)
(* add_student_space and delete_student_space requests of the dashboard,   *)
(* served by two workers.  No handler opens a transaction or takes a lock, *)
(* so every query of a request is a step of its own; db holds the student  *)
(* and the StudentSpace table, req the position and the locals of the      *)
(* request each worker serves.                                             *)

MaxSpaces == 3      \* StudentSpace rows created in one behaviour

Workers == {1, 2}

Idle == [pc |-> "idle", is_primary |-> FALSE, is_first |-> FALSE, migrating |-> FALSE]

NewSpace(id, is_primary) == [id |-> id, student |-> "n1", is_primary |-> is_primary]

(* The UPDATE of StudentSpace.save: the student's other primary spaces     *)
(* lose the flag; the row being saved has no pk yet.                       *)
UnsetPrimary(spaces) == {[sp EXCEPT !.is_primary = FALSE] : sp \in spaces}

(* The INSERT of StudentSpace.save (super().save()) for a new row. *)
InsertSpace(store, is_primary) ==
    [store EXCEPT
        !.StudentSpace = @ \cup {NewSpace(store.nextId, is_primary)},
        !.nextId = @ + 1]

InitPrimary ==
    /\ \E url \in {"", "u"} :
          db = [zep_space_url |-> url, StudentSpace |-> {}, nextId |-> 1]
    /\ session = NoUpload
    /\ last = [op |-> "init", overlapped |-> FALSE]
    /\ req = [w \in Workers |-> Idle]

Overlap(w) == last.overlapped \/ \E v \in Workers \ {w} : req[v].pc # "idle"

(* add_student_space up to the migration check: a legacy zep_space_url and *)
(* no space yet makes the handler create the migrated space, primary.      *)
AddStudentSpace(w) ==
    /\ req[w].pc = "idle"
    /\ db.nextId <= MaxSpaces
    /\ \E is_primary \in BOOLEAN :
          req' = [req EXCEPT ![w] =
                    [pc |-> IF db.zep_space_url # "" /\ db.StudentSpace = {}
                            THEN "unset" ELSE "first",
                     is_primary |-> is_primary, is_first |-> FALSE,
                     migrating |-> db.zep_space_url # "" /\ db.StudentSpace = {}]]
    /\ last' = [op |-> "add", overlapped |-> Overlap(w)]
    /\ UNCHANGED <<db, session>>

(* is_first = not student.spaces.exists() *)
FirstCheck(w) ==
    /\ req[w].pc = "first"
    /\ req' = [req EXCEPT ![w].pc = IF db.StudentSpace = {} \/ req[w].is_primary
                                    THEN "unset" ELSE "insert",
                          ![w].is_first = db.StudentSpace = {}]
    /\ last' = [last EXCEPT !.op = "first"]
    /\ UNCHANGED <<db, session>>

(* StudentSpace.save, the UPDATE that unsets the other primary spaces. *)
SaveUnset(w) ==
    /\ req[w].pc = "unset"
    /\ db' = [db EXCEPT !.StudentSpace = UnsetPrimary(@)]
    /\ req' = [req EXCEPT ![w].pc = "insert"]
    /\ last' = [last EXCEPT !.op = "unset"]
    /\ UNCHANGED session

(* StudentSpace.save, super().save(): the INSERT.  After the migrated      *)
(* space the handler goes on to the space of the request.                  *)
SaveInsert(w) ==
    /\ req[w].pc = "insert"
    /\ db' = InsertSpace(db, \/ req[w].migrating
                             \/ req[w].is_first \/ req[w].is_primary)
    /\ req' = [req EXCEPT ![w] = IF req[w].migrating
                                 THEN [@ EXCEPT !.pc = "first", !.migrating = FALSE]
                                 ELSE Idle]
    /\ last' = [last EXCEPT !.op = "insert"]
    /\ UNCHANGED session

(* delete_student_space: get and delete of one row. *)
DeleteStudentSpace(w) ==
    /\ req[w].pc = "idle"
    /\ \E sp \in db.StudentSpace :
          db' = [db EXCEPT !.StudentSpace = @ \ {sp}]
    /\ last' = [op |-> "delete", overlapped |-> Overlap(w)]
    /\ UNCHANGED <<session, req>>

NextPrimary ==
    \E w \in Workers :
        \/ AddStudentSpace(w) \/ FirstCheck(w) \/ SaveUnset(w) \/ SaveInsert(w)
        \/ DeleteStudentSpace(w)

SpecPrimary == InitPrimary /\ [][NextPrimary]_vars

Primary(store) == {sp \in store.StudentSpace : sp.is_primary}

(* C20: in every state reached by add-space and delete-space requests,     *)
(* concurrent ones included, the student has at most one primary space.    *)
C20_AtMostOnePrimary ==
    Cardinality(Primary(db)) <= 1

(* As long as no request has started while another was being served, the   *)
(* student has at most one primary space.                                  *)
C20_SerialAtMostOnePrimary ==
    ~last.overlapped => Cardinality(Primary(db)) <= 1

-----------------------------------------------------------------------------
(* Properties of the orchestrator and of the retry in SpecSpaces. *)

CallsFor(calls, student) == SelectSeq(calls, LAMBDA c : c.student = student)

-----------------------------------------------------------------------------
(* SpecSchools: requests of two workers that create the school s1, either  *)
(* create_school of the dashboard or an auto-hierarchy import of one row.  *)
(* School.name carries no unique constraint, and neither handler locks:    *)
(* create_school runs its exists() query and its INSERT as two statements  *)
(* in autocommit; the import reads the school inside its transaction and   *)
(* its writes are seen by the others when it commits.  req holds, for each *)
(* worker, the position and the locals of the request it serves.           *)

NoRequest == [pc |-> "idle", user |-> NoUser, found |-> NoId, missing |-> FALSE]

InitSchools ==
    /\ \E ts \in Stamps : db = InitStore(ts, 0, {}, 0)
    /\ session = NoUpload
    /\ last = [op |-> "init", step |-> 0, overlapped |-> FALSE]
    /\ req = [w \in Workers |-> NoRequest]

Started(op, w) ==
    [op |-> op, step |-> last.step + 1, overlapped |-> Overlap(w)]

(* create_school: School.objects.filter(name=school_name).exists() *)
CreateSchoolExists(w) ==
    /\ req[w].pc = "idle"
    /\ last.step < MaxSteps
    /\ \E user \in Instructors :
          req' = [req EXCEPT ![w] =
                    IF \E sc \in db.School : sc.name = "s1"
                    THEN NoRequest
                    ELSE [NoRequest EXCEPT !.pc = "school_insert", !.user = user]]
    /\ last' = Started("create_school", w)
    /\ UNCHANGED <<db, session>>

(* create_school: School.objects.create(name, notes, instructor) *)
CreateSchoolInsert(w) ==
    /\ req[w].pc = "school_insert"
    /\ db' = [db EXCEPT
                !.School = @ \cup {[id |-> db.nextId, name |-> "s1",
                                    instructor |-> req[w].user]},
                !.nextId = @ + 1]
    /\ req' = [req EXCEPT ![w] = NoRequest]
    /\ last' = [last EXCEPT !.op = "school_insert"]
    /\ UNCHANGED session

(* The import, the SELECT of School.objects.get_or_create: more than one   *)
(* school of the name raises MultipleObjectsReturned and ends the import.  *)
ImportGetSchool(w) ==
    /\ req[w].pc = "idle"
    /\ last.step < MaxSteps
    /\ \E user \in Instructors :
       \E found \in {{sc \in db.School : sc.name = "s1"}} :
          req' = [req EXCEPT ![w] =
                    IF Cardinality(found) > 1 THEN NoRequest
                    ELSE [pc |-> "import_commit", user |-> user,
                          found |-> IF found = {} THEN NoId
                                    ELSE (CHOOSE sc \in found : TRUE).id,
                          missing |-> found = {}]]
    /\ last' = Started("import", w)
    /\ UNCHANGED <<db, session>>

(* The import from the INSERT of get_or_create to the commit: the school   *)
(* row when the SELECT found none, the class, and the student of the row.  *)
ImportCommit(w) ==
    /\ req[w].pc = "import_commit"
    /\ \E ts \in Stamps, year \in Years :
       \E school \in {IF req[w].missing THEN db.nextId ELSE req[w].found} :
       \E store \in {IF req[w].missing
                     THEN [db EXCEPT
                              !.School = @ \cup {[id |-> db.nextId, name |-> "s1",
                                                  instructor |-> NoUser]},
                              !.nextId = @ + 1]
                     ELSE db} :
       \E cls \in {ClassGetOrCreate(store, "c1", school, req[w].user, year)} :
       \E acc \in {IF ~cls.ok THEN [StartAcc(store) EXCEPT !.raised = TRUE]
                   ELSE AutoRows([StartAcc(store) EXCEPT !.store = cls.store],
                                 <<CHOOSE r \in PlainRows : r.school_name = "s1">>,
                                 cls.id, ts, <<1, 2>>)} :
          db' = Atomic(db, acc).store
    /\ req' = [req EXCEPT ![w] = NoRequest]
    /\ last' = [last EXCEPT !.op = "import_commit"]
    /\ UNCHANGED session

NextSchools ==
    \E w \in Workers :
        \/ CreateSchoolExists(w) \/ CreateSchoolInsert(w)
        \/ ImportGetSchool(w) \/ ImportCommit(w)

SpecSchools == InitSchools /\ [][NextSchools]_vars

(* C22: whatever the interleaving of the imports and the school creations  *)
(* of concurrent requests, at most one school has a given name.            *)
C22_SchoolNamesUnique ==
    \A a, b \in db.School : a.name = b.name => a.id = b.id

(* As long as no request has started while another was being served, the   *)
(* school names are unique.                                                *)
C22_SerialSchoolNamesUnique ==
    ~last.overlapped => \A a, b \in db.School : a.name = b.name => a.id = b.id

-----------------------------------------------------------------------------
(* Properties of _make_request in SpecClient.  The request of a call is    *)
(* sent again as soon as its sleep is over, so SpecClientFair adds weak    *)
(* fairness of the steps.                                                  *)

SpecClientFair == SpecClient /\ WF_vars(NextClient)

Finished == req.pc \in {"returned", "raised"}

(* C23: whatever the outcomes, a call sends at most max_retries + 1        *)
(* requests, the retry counter counting the retries of every kind, and it  *)
(* ends, returning the payload or raising ZEPAPIError.                     *)
C23_BoundedRetries ==
    /\ [](/\ req.requests <= max_retries + 1
          /\ req.retry_count = Len(req.sleeps)
          /\ req.pc = "sending" => req.requests = req.retry_count
          /\ req.pc = "returned" => req.result = "200"
          /\ req.pc = "raised" =>
                req.result \in {"Rate limit exceeded", "Request timeout", "Request failed"})
    /\ <>Finished

(* A fourth request, after retries of four different kinds. *)
C23_Witness ==
    /\ req.requests = max_retries + 1
    /\ Finished
    /\ {req.responses[i] : i \in 1..max_retries} = {"429", "500", "timeout"}
    /\ req.responses[max_retries + 1] = "connection"

(* C24: a call whose first response is a 4xx status other than 429 sends   *)
(* that one request, does not sleep, and fails.                            *)
C24_ClientErrorNotRetried ==
    (req.responses # <<>> /\ req.responses[1] = "404") =>
        /\ req.requests = 1
        /\ req.sleeps = <<>>
        /\ req.pc = "raised"

(* What the client does with a 404: it waits the flat delay and sends the  *)
(* request again, up to max_retries times.                                 *)
C24_ClientErrorRetried ==
    All(req.responses, {"404"}) =>
        /\ req.sleeps = Flat(Len(req.sleeps))
        /\ req.pc = "raised" <=> req.requests = max_retries + 1
        /\ req.pc = "raised" => req.result = "Request failed"

-----------------------------------------------------------------------------
(* Properties of the results of a bulk provisioning call in SpecBulk. *)

(* get_student_credentials: the credentials of the results with success. *)
get_student_credentials(results) ==
    LET ok == SelectSeq(results, LAMBDA r : r.success)
    IN  [i \in 1..Len(ok) |->
            [name |-> ok[i].name, school_name |-> ok[i].school_name,
             class_name |-> ok[i].class_name, username |-> ok[i].username,
             email |-> ok[i].email]]

NewProfiles == db.Student \ last.pre.Student

(* C25: when a bulk provisioning call returns normally there is one result *)
(* for each input row, as many profiles were created as results have       *)
(* success, and the credentials are those of the created profiles: one for *)
(* each, and none for a row that failed.                                   *)
C25_NoRowDropped ==
    (IsBulk /\ ~last.raised) =>
        /\ Len(last.results) = Len(last.rows)
        /\ Cardinality(NewProfiles) = Count(last.results, LAMBDA r : r.success)
        /\ {c.username : c \in Range(get_student_credentials(last.results))}
              = {p.user : p \in NewProfiles}

(* The lists the call returns agree with each other: one result for each   *)
(* row, one created student and one credential for each result with        *)
(* success; and they agree with the store unless a database error was      *)
(* caught inside the transaction.                                          *)
C25_ResultPerRow ==
    (IsBulk /\ ~last.raised) =>
        /\ Len(last.results) = Len(last.rows)
        /\ Len(last.created) = Count(last.results, LAMBDA r : r.success)
        /\ {c.username : c \in Range(get_student_credentials(last.results))}
              = {c.user : c \in Range(last.created)}
        /\ Len(get_student_credentials(last.results)) = Len(last.created)
        /\ ~last.broken => {c.user : c \in Range(last.created)}
                              = {p.user : p \in NewProfiles}
        /\ last.broken => db = last.pre

NewAccounts == db.User \ last.pre.User

(* C26: after a bulk provisioning call, returned or failed, every student  *)
(* account the call persisted has exactly one profile.                     *)
C26_NoOrphanAccount ==
    IsBulk =>
        \A u \in NewAccounts :
            Cardinality({p \in db.Student : p.user = u.username}) = 1

(* The single-class mode leaves no account without profile. *)
C26_SingleClassNoOrphan ==
    last.op = "single" =>
        \A u \in NewAccounts :
            Cardinality({p \in db.Student : p.user = u.username}) = 1

-----------------------------------------------------------------------------
(* Properties of the confirm step in SpecConfirm. *)

(* The rows of the stored upload that the operator left checked. *)
CheckedRows ==
    {i \in 1..Len(last.uploaded.students) :
        \E k \in 1..Len(last.selected) : last.selected[k] = i - 1}

WithOwnUrl(rows) == {i \in rows : last.uploaded.students[i].zep_space_url # ""}

(* C27: the confirm step provisions only the rows left checked: it makes   *)
(* no more results, accounts and profiles than there are checked rows, and *)
(* no more profiles with a space URL of their own than checked rows have   *)
(* one; with no row checked it creates nothing.                            *)
C27_ExclusionHonoured ==
    last.op = "confirm" =>
        /\ Len(last.results) <= Cardinality(CheckedRows)
        /\ Added(db.User, last.pre.User) <= Cardinality(CheckedRows)
        /\ Added(db.Student, last.pre.Student) <= Cardinality(CheckedRows)
        /\ Cardinality({i \in 1..Len(last.created) : last.created[i].zep_space_url = "u"})
              <= Cardinality(WithOwnUrl(CheckedRows))

(* When at least one row is checked, only the checked rows are provisioned. *)
C27_CheckedRowsOnly ==
    (last.op = "confirm" /\ last.selected # <<>>) =>
        /\ Len(last.results) = Cardinality(CheckedRows)
        /\ Added(db.User, last.pre.User) <= Cardinality(CheckedRows)
        /\ Added(db.Student, last.pre.Student) <= Cardinality(CheckedRows)
        /\ Cardinality({i \in 1..Len(last.created) : last.created[i].zep_space_url = "u"})
              <= Cardinality(WithOwnUrl(CheckedRows))

(* C28: once a confirm request has persisted accounts for the stored       *)
(* upload, a later confirm request of the session finds no upload data and *)
(* creates nothing, whatever became of the space provisioning; and a       *)
(* confirm request without stored upload data creates nothing.             *)
C28_ProvisionedOnce ==
    /\ (last.op = "confirm_again" /\ last.first > 0) =>
          /\ last.status = "no_upload"
          /\ db = last.pre
    /\ (last.op \in {"confirm", "confirm_again"} /\ last.status = "no_upload") =>
          db = last.pre

(* The upload is provisioned once when the first confirm request ran to    *)
(* its end.                                                                *)
C28_OnceWhenConfirmReturns ==
    (last.op = "confirm_again" /\ last.first_status = "done") =>
        /\ last.status = "no_upload"
        /\ db = last.pre

-----------------------------------------------------------------------------
(* Properties of retry_failed_space_creation. *)

(* C29: a retry creates no failure record: after a failed retry of an      *)
(* attempt the records are those from before the retry, and only the       *)
(* retry_count of the attempt has changed.                                 *)
C29_RetryAddsNoRecord ==
    (last.op = "retry" /\ ~last.success) =>
        /\ Ids(db.FailedSpaceCreation) = Ids(last.pre.FailedSpaceCreation)
        /\ \A f \in db.FailedSpaceCreation :
              f.id # last.attempt.id => f \in last.pre.FailedSpaceCreation

(* A retry that succeeds or that is refused for lack of an instructor      *)
(* email creates no record; a retry whose provisioning fails creates one.  *)
C29_FailedRetryAddsOne ==
    last.op = "retry" =>
        Added(db.FailedSpaceCreation, last.pre.FailedSpaceCreation)
            = IF ~last.success /\ last.calls # <<>> THEN 1 ELSE 0

AssignedClass(store, student) ==
    {c \in store.Class : c.id = ProfileOf(store, student).class_assignment}

(* C30: a retry for a student whose class exists and has no instructor     *)
(* does not raise: it returns false, calls no external API and changes no  *)
(* failure record.                                                         *)
C30_RetryNeverRaises ==
    (/\ last.op = "retry_failed"
     /\ \E c \in AssignedClass(db, last.user) : c.instructor = NoUser) =>
        /\ ~last.raised /\ ~last.success
        /\ last.calls = <<>>
        /\ db.FailedSpaceCreation = last.failed

(* What the retry does then: it raises before any call and any change. *)
C30_RetryRaises ==
    (/\ last.op = "retry_failed"
     /\ \E c \in AssignedClass(db, last.user) : c.instructor = NoUser) =>
        /\ last.raised /\ ~last.success
        /\ last.calls = <<>>
        /\ db.FailedSpaceCreation = last.failed

====
